---- MODULE Spec2Model ----
(***************************************************************************)
(* Watchlist alert monitoring engine of app/static/script.js:              *)
(* WatchlistManager (the persisted collection of watch items) and          *)
(* WatchlistPolling (the market-hours-aware polling scheduler, condition   *)
(* evaluation and trigger ledger).                                         *)
(*                                                                         *)
(* JavaScript objects are modelled with their identity: `items` is the     *)
(* heap of item objects, `watchlist` the manager's current array (a        *)
(* sequence of references), and every outstanding check() holds the array  *)
(* reference it read before its await.                                     *)
(***************************************************************************)
EXTENDS Integers, Sequences, FiniteSets, TLC

(* ------------------------------ bounds --------------------------------- *)
\* Number of item ids that add() can ever hand out in one behaviour.
MaxItems == 2
\* Number of check() calls whose fetch may be outstanding at the same time.
MaxInFlight == 2
\* Number of setInterval handles that may be armed at the same time.
MaxTimers == 2
\* Notify calls per (item, key) are counted up to this number.
MaxCalls == 2

(* --------------------------- program constants ------------------------- *)
ALERT_TYPES ==
    {"price_above", "price_below", "change_percent_above",
     "change_percent_below", "bid_ask_ratio_above"}

\* Status texts written by updateStatusDisplay.
StatusIdle == "idle"                 \* '無監控項目'
StatusNonTrading == "non-trading"    \* '非盤中時間'
StatusRunning == "running"           \* '運作中 - HH:MM'
StatusFailed == "check-failed"       \* '檢查失敗'
StatusStopped == "stopped"           \* '已停止'
StatusUnset == "unset"               \* the element's text before any update

(* ------------------------------ inputs --------------------------------- *)
Codes == {"2330", "2317"}

Rule(t, v, e) == [type |-> t, value |-> v, enabled |-> e]

\* Rule lists handed to add() and update().  Values are in hundredths.
RuleSets ==
    { <<Rule("price_above", 10000, TRUE)>>,
      <<Rule("price_below", 10000, TRUE), Rule("price_above", 10000, TRUE)>>,
      <<Rule("price_above", 10000, FALSE)>> }

Quote(c, p) ==
    [code |-> c, price |-> p, change_percent |-> 0, bid_ask_ratio |-> 100]

\* Prices a quote can carry: just below and at the thresholds.
Prices == {9999, 10000}

\* Local wall-clock instants the clock steps through (day 0 = Sunday).
Time(d, h, m, s) == [day |-> d, hour |-> h, minute |-> m, second |-> s]

ClockPoints ==
    << Time(3, 8, 59, 59), Time(3, 9, 0, 0), Time(3, 13, 30, 1) >>

\* Notification capability of the host: the three values of
\* Notification.permission, or no Notification global at all.
NotifCaps == {"default", "granted", "denied", "absent"}

(* ------------------------------- state --------------------------------- *)
VARIABLES
    watchlist,      \* manager.watchlist: sequence of item ids (references)
    items,          \* heap of item objects, by id
    nextId,         \* next id add() hands out
    stored,         \* localStorage['stock_watchlist'], parsed
    isRunning,      \* polling.isRunning
    interval,       \* polling.interval: a timer handle, or 0 for null
    timers,         \* handles of the setInterval timers that are armed
    status,         \* text of the status element (with lastCheckTime)
    inflight,       \* check() calls suspended at their await
    now,            \* the local clock: what new Date() returns
    notifCap,       \* notification capability of the host
    calls,          \* notify calls per <<id, key>> since the last reset
    storageFull,    \* whether localStorage.setItem throws when called
    daily,          \* the daily reset timer armed by initWatchlist
    shape,          \* what load() gave the manager: an array or not
    content,        \* what is under the localStorage key: an array or not
    args,           \* the arguments of the call that made the last step
    op              \* the operation that made the last step

vars ==
    << watchlist, items, nextId, stored, isRunning, interval, timers,
       status, inflight, now, notifCap, calls, storageFull,
       daily, shape, content, args, op >>

NoTime == <<>>

NoArgs == <<>>

Contains(s, x) == \E k \in 1..Len(s) : s[k] = x

Range(s) == {s[k] : k \in 1..Len(s)}

Ids == 1..MaxItems

Clock == now


RECURSIVE SelectIds(_, _)
SelectIds(s, keep) ==
    IF s = <<>> THEN <<>>
    ELSE IF keep[Head(s)] THEN <<Head(s)>> \o SelectIds(Tail(s), keep)
         ELSE SelectIds(Tail(s), keep)

\* JSON.stringify(this.watchlist): the items of the array, by value.
Serialize(wl, its) == [k \in 1..Len(wl) |-> its[wl[k]]]

\* save(): localStorage.setItem('stock_watchlist', JSON.stringify(...)) in a
\* try block whose catch only logs: the value of the key after save(), which
\* is the old one when setItem throws.
save(wl, its) == IF storageFull THEN stored ELSE Serialize(wl, its)

\* What is under the key after save(): the array just written, or what was
\* there when setItem throws.
written == IF storageFull THEN content ELSE "array"

\* Item objects that some array still references.
Live(wl, fl) ==
    {wl[k] : k \in 1..Len(wl)} \cup
    UNION {{fl[i].snap[k] : k \in 1..Len(fl[i].snap)} : i \in 1..Len(fl)}

Collect(its, wl, fl) == [i \in (DOMAIN its) \cap Live(wl, fl) |-> its[i]]

(* -------------------------- WatchlistPolling --------------------------- *)
\* Mutant: the last minute of the window is left out.
isMarketHoursStrict(t) ==
    /\ t.day >= 1 /\ t.day <= 5
    /\ \/ (t.hour = 9 /\ t.minute >= 0)
       \/ (t.hour >= 10 /\ t.hour < 13)
       \/ (t.hour = 13 /\ t.minute < 30)

isMarketHours(t) ==
    /\ t.day >= 1 /\ t.day <= 5
    /\ \/ (t.hour = 9 /\ t.minute >= 0)
       \/ (t.hour >= 10 /\ t.hour < 13)
       \/ (t.hour = 13 /\ t.minute <= 30)

\* formatTime: two-digit hour and minute, as digits.
formatTime(t) ==
    << t.hour \div 10, t.hour % 10, t.minute \div 10, t.minute % 10 >>

Status(text) == [text |-> text, time |-> NoTime]

RunningStatus(t) == [text |-> StatusRunning, time |-> formatTime(t)]


\* The switch of checkAlerts: whether rule a holds against quote q.
Holds(a, q) ==
    CASE a.type = "price_above" -> q.price >= a.value
      [] a.type = "price_below" -> q.price <= a.value
      [] a.type = "change_percent_above" -> q.change_percent >= a.value
      [] a.type = "change_percent_below" -> q.change_percent <= a.value
      [] a.type = "bid_ask_ratio_above" -> q.bid_ask_ratio >= a.value
      [] OTHER -> FALSE

\* alertKey = `${alert.type}_${index}`, index counted from 0.
alertKey(a, index) == <<a.type, index>>

\* notify() reads Notification.permission first: with no Notification
\* global that read throws a ReferenceError out of notify.
notifyThrows(cap) == cap = "absent"

\* The notify calls c with one more call for x, counted up to MaxCalls.
Count(c, x) == IF x \in DOMAIN c THEN c[x] ELSE 0

Bump(c, x) ==
    [y \in (DOMAIN c) \cup {x} |->
        IF y = x THEN (IF Count(c, x) < MaxCalls THEN Count(c, x) + 1
                       ELSE Count(c, x))
        ELSE c[y]]

\* Mutant: checkAlerts pushes the key and does not call manager.save().
checkAlertNoSave(st, id, q, k, cap) ==
    LET item == st.items[id]
        a == item.alerts[k]
        key == alertKey(a, k - 1)
    IN  IF ~a.enabled THEN st
        ELSE IF Contains(item.triggered, key) THEN st
        ELSE IF ~Holds(a, q) THEN st
        ELSE IF notifyThrows(cap)
             THEN [st EXCEPT !.calls = Bump(@, <<id, key>>), !.thrown = TRUE]
             ELSE [st EXCEPT !.calls = Bump(@, <<id, key>>),
                             !.items[id].triggered = Append(@, key)]

\* Mutant: the forEach of checkAlerts without its test of item.triggered.
checkAlertUntested(st, id, q, k, cap) ==
    LET item == st.items[id]
        a == item.alerts[k]
        key == alertKey(a, k - 1)
    IN  IF ~a.enabled THEN st
        ELSE IF ~Holds(a, q) THEN st
        ELSE IF notifyThrows(cap)
             THEN [st EXCEPT !.calls = Bump(@, <<id, key>>), !.thrown = TRUE]
             ELSE [st EXCEPT !.calls = Bump(@, <<id, key>>),
                             !.items[id].triggered = Append(@, key),
                             !.saved = TRUE]

\* Mutant: the forEach of checkAlerts without its test of alert.enabled.
checkAlertAnyway(st, id, q, k, cap) ==
    LET item == st.items[id]
        a == item.alerts[k]
        key == alertKey(a, k - 1)
    IN  IF Contains(item.triggered, key) THEN st
        ELSE IF ~Holds(a, q) THEN st
        ELSE IF notifyThrows(cap)
             THEN [st EXCEPT !.calls = Bump(@, <<id, key>>), !.thrown = TRUE]
             ELSE [st EXCEPT !.calls = Bump(@, <<id, key>>),
                             !.items[id].triggered = Append(@, key),
                             !.saved = TRUE]

\* One iteration of the forEach of checkAlerts, on rule number k (from 1)
\* of item id.  st carries the heap, the notify calls, whether an exception
\* is propagating, and whether save() ran.
checkAlert(st, id, q, k, cap) ==
    LET item == st.items[id]
        a == item.alerts[k]
        key == alertKey(a, k - 1)
    IN  IF ~a.enabled THEN st
        ELSE IF Contains(item.triggered, key) THEN st
        ELSE IF ~Holds(a, q) THEN st
        ELSE IF notifyThrows(cap)
             THEN [st EXCEPT !.calls = Bump(@, <<id, key>>), !.thrown = TRUE]
             ELSE [st EXCEPT !.calls = Bump(@, <<id, key>>),
                             !.items[id].triggered = Append(@, key),
                             !.saved = TRUE]

RECURSIVE checkAlertsFrom(_, _, _, _, _)
checkAlertsFrom(st, id, q, k, cap) ==
    IF st.thrown \/ k > Len(st.items[id].alerts) THEN st
    ELSE checkAlertsFrom(checkAlert(st, id, q, k, cap), id, q, k + 1, cap)

checkAlerts(st, id, q, cap) == checkAlertsFrom(st, id, q, 1, cap)

\* watchItems.forEach(item => this.checkAlerts(item, stock))
RECURSIVE forEachItem(_, _, _, _)
forEachItem(st, ids, q, cap) ==
    IF st.thrown \/ ids = <<>> THEN st
    ELSE forEachItem(checkAlerts(st, Head(ids), q, cap), Tail(ids), q, cap)

\* stocks.forEach(stock => { watchlist.filter(...).forEach(...) }) over the
\* array reference snap that check() read before its await.
RECURSIVE forEachStock(_, _, _, _)
forEachStock(st, snap, stocks, cap) ==
    IF st.thrown \/ stocks = <<>> THEN st
    ELSE LET stock == Head(stocks)
             watchItems ==
                 SelectIds(snap, [i \in DOMAIN st.items |->
                                      st.items[i].stock_code = stock.code])
         IN  forEachStock(forEachItem(st, watchItems, stock, cap),
                          snap, Tail(stocks), cap)

\* codes = watchlist.map(item => item.stock_code)
codesOf(wl, its) == [k \in 1..Len(wl) |-> its[wl[k]].stock_code]

CodeSet(codes) == {codes[k] : k \in 1..Len(codes)}

\* Bodies the quote service can answer with: for each requested code at
\* most one quote, in any order; codes with no result are omitted.
Responses(codes) ==
    LET qs == {Quote(c, p) : c \in CodeSet(codes), p \in Prices}
        seqs == UNION {[1..n -> qs] : n \in 0..Cardinality(CodeSet(codes))}
    IN  {s \in seqs :
            \A i, j \in 1..Len(s) : i # j => s[i].code # s[j].code}

\* Ways a fetch can end without a list of quotes: the fetch rejects, the
\* body is no JSON, or the JSON is no array (stocks.forEach is no function).
Failures == {"reject", "badjson", "notarray"}

Remove(s, i) == [k \in 1..(Len(s) - 1) |-> IF k < i THEN s[k] ELSE s[k + 1]]

\* Mutant: check() without its test of an empty watchlist.
checkCallAlways ==
    /\ inflight' = Append(inflight,
            [snap |-> watchlist, shared |-> TRUE,
             codes |-> codesOf(watchlist, items)])
    /\ status' = status

\* The part of check() up to its await, as run by start(), the timer
\* callback and manual calls.  It changes status and inflight only.
checkCall ==
    IF Len(watchlist) = 0
    THEN /\ status' = Status(StatusIdle)
         /\ inflight' = inflight
    ELSE /\ inflight' = Append(inflight,
                [snap |-> watchlist, shared |-> TRUE,
                 codes |-> codesOf(watchlist, items)])
         /\ status' = status

\* Bound on outstanding fetches.
CanFetch == Len(watchlist) = 0 \/ Len(inflight) < MaxInFlight

FreshTimer == CHOOSE h \in 1..MaxTimers : h \notin timers

(* ---------------------------- initWatchlist ---------------------------- *)
\* now > resetTime, resetTime being 14:30:00 of the day of t.
AfterResetTime(t) ==
    \/ t.hour > 14
    \/ t.hour = 14 /\ t.minute > 30
    \/ t.hour = 14 /\ t.minute = 30 /\ t.second > 0

\* The instant the setTimeout of initWatchlist is due when it is armed at t:
\* 14:30:00 of the same day, or of the day after when that has passed.
NextReset(t) ==
    IF AfterResetTime(t) THEN Time((t.day + 1) % 7, 14, 30, 0)
    ELSE Time(t.day, 14, 30, 0)

\* The instant 24 hours after t.
DayLater(t) == Time((t.day + 1) % 7, t.hour, t.minute, t.second)

NoDaily == [kind |-> "none", due |-> Time(0, 0, 0, 0)]

\* The daily timer after initWatchlist ran at t on a host with capability
\* cap: the read of Notification.permission throws before the timer is
\* armed when the host has no Notification global.
Armed(cap, t) ==
    IF cap = "absent" THEN NoDaily
    ELSE [kind |-> "timeout", due |-> NextReset(t)]

(* ------------------------------ actions -------------------------------- *)
Init ==
    /\ watchlist = <<>>
    /\ items = <<>>
    /\ nextId = 1
    /\ stored = <<>>
    /\ isRunning = FALSE
    /\ interval = 0
    /\ timers = {}
    /\ status = Status(StatusUnset)
    /\ inflight = <<>>
    /\ now \in Range(ClockPoints)
    /\ notifCap \in NotifCaps
    /\ calls = <<>>
    /\ storageFull \in BOOLEAN
    /\ daily = Armed(notifCap, now)
    /\ shape = "array"
    /\ content = "array"
    /\ args = NoArgs
    /\ op = "init"

\* Mutant: add() puts the new item in front of the others.
addFront(code, alerts) ==
    /\ nextId <= MaxItems
    /\ LET item == [id |-> nextId, stock_code |-> code, alerts |-> alerts,
                    triggered |-> <<>>, created_at |-> nextId]
           its == [i \in (DOMAIN items) \cup {nextId} |->
                       IF i = nextId THEN item ELSE items[i]]
       IN  /\ items' = its
           /\ watchlist' = <<nextId>> \o watchlist
           /\ inflight' = [i \in 1..Len(inflight) |->
                  IF inflight[i].shared
                  THEN [inflight[i] EXCEPT !.snap = <<nextId>> \o @]
                  ELSE inflight[i]]
           /\ stored' = save(watchlist', its)
           /\ content' = written
    /\ nextId' = nextId + 1
    /\ op' = "add"
    /\ args' = <<code, alerts>>
    /\ UNCHANGED << isRunning, interval, timers, status, now, notifCap,
                    storageFull, calls, daily, shape >>

\* WatchlistManager.add.  id and created_at are both made from the clock at
\* the time of the call: the calls are numbered instead.
add(code, alerts) ==
    /\ nextId <= MaxItems
    /\ LET item == [id |-> nextId, stock_code |-> code, alerts |-> alerts,
                    triggered |-> <<>>, created_at |-> nextId]
           its == [i \in (DOMAIN items) \cup {nextId} |->
                       IF i = nextId THEN item ELSE items[i]]
       IN  /\ items' = its
           /\ watchlist' = Append(watchlist, nextId)
           /\ inflight' = [i \in 1..Len(inflight) |->
                  IF inflight[i].shared
                  THEN [inflight[i] EXCEPT !.snap = Append(@, nextId)]
                  ELSE inflight[i]]
           /\ stored' = save(watchlist', its)
           /\ content' = written
    /\ nextId' = nextId + 1
    /\ op' = "add"
    /\ args' = <<code, alerts>>
    /\ UNCHANGED << isRunning, interval, timers, status, now, notifCap,
                    storageFull, calls, daily, shape >>

\* Mutant: remove() moves the last item into the place of the removed one.
removeSwap(id) ==
    /\ watchlist' =
           IF Contains(watchlist, id)
           THEN LET n == Len(watchlist)
                    k == CHOOSE j \in 1..n : watchlist[j] = id
                IN  [j \in 1..(n - 1) |->
                        IF j = k THEN watchlist[n] ELSE watchlist[j]]
           ELSE watchlist
    /\ inflight' = [i \in 1..Len(inflight) |->
                        [inflight[i] EXCEPT !.shared = FALSE]]
    /\ items' = Collect(items, watchlist', inflight')
    /\ stored' = save(watchlist', items)
    /\ content' = written
    /\ op' = "remove"
    /\ args' = <<id>>
    /\ UNCHANGED << nextId, isRunning, interval, timers, status, now,
                    notifCap, storageFull, calls, daily, shape >>

\* WatchlistManager.remove
remove(id) ==
    /\ watchlist' = SelectIds(watchlist, [i \in DOMAIN items |-> i # id])
    /\ inflight' = [i \in 1..Len(inflight) |->
                        [inflight[i] EXCEPT !.shared = FALSE]]
    /\ items' = Collect(items, watchlist', inflight')
    /\ stored' = save(watchlist', items)
    /\ content' = written
    /\ op' = "remove"
    /\ args' = <<id>>
    /\ UNCHANGED << nextId, isRunning, interval, timers, status, now,
                    notifCap, storageFull, calls, daily, shape >>

\* Mutant: update() of an id that is not in the array adds an item for it.
updateUpsert(id, alerts) ==
    /\ IF Contains(watchlist, id)
       THEN /\ items' = [items EXCEPT ![id].alerts = alerts]
            /\ watchlist' = watchlist
       ELSE /\ items' = [i \in (DOMAIN items) \cup {id} |->
                            IF i = id
                            THEN [id |-> id, stock_code |-> "2330",
                                  alerts |-> alerts, triggered |-> <<>>,
                                  created_at |-> id]
                            ELSE items[i]]
            /\ watchlist' = Append(watchlist, id)
    /\ stored' = save(watchlist', items')
    /\ content' = written
    /\ op' = "update"
    /\ args' = <<id, alerts>>
    /\ UNCHANGED << nextId, isRunning, interval, timers, status, inflight,
                    now, notifCap, storageFull, calls, daily, shape >>

\* Mutant: update() puts a fresh item in the place of the old one.
updateReplace(id, alerts) ==
    /\ IF Contains(watchlist, id)
       THEN /\ items' = [items EXCEPT ![id] =
                            [id |-> id, stock_code |-> items[id].stock_code,
                             alerts |-> alerts, triggered |-> <<>>,
                             created_at |-> items[id].created_at]]
            /\ stored' = save(watchlist, items')
            /\ content' = written
       ELSE UNCHANGED << items, stored, content >>
    /\ op' = "update"
    /\ args' = <<id, alerts>>
    /\ UNCHANGED << watchlist, nextId, isRunning, interval, timers, status,
                    inflight, now, notifCap, storageFull, calls, daily,
                    shape >>

\* WatchlistManager.update
update(id, alerts) ==
    /\ IF Contains(watchlist, id)
       THEN /\ items' = [items EXCEPT ![id].alerts = alerts]
            /\ stored' = save(watchlist, items')
            /\ content' = written
       ELSE UNCHANGED << items, stored, content >>
    /\ op' = "update"
    /\ args' = <<id, alerts>>
    /\ UNCHANGED << watchlist, nextId, isRunning, interval, timers, status,
                    inflight, now, notifCap, storageFull, calls, daily,
                    shape >>

\* Mutant: resetTriggered() gives way before it has cleared the last item.
resetPartly ==
    /\ items' = [i \in DOMAIN items |->
                    IF Contains(watchlist, i) /\ i # watchlist[Len(watchlist)]
                    THEN [items[i] EXCEPT !.triggered = <<>>]
                    ELSE items[i]]
    /\ calls' = [x \in {y \in DOMAIN calls : ~Contains(watchlist, y[1])} |->
                    calls[x]]
    /\ stored' = save(watchlist, items')
    /\ content' = written
    /\ op' = "reset"
    /\ args' = NoArgs
    /\ UNCHANGED << watchlist, nextId, isRunning, interval, timers, status,
                    inflight, now, notifCap, storageFull, daily, shape >>

\* Mutant: resetTriggered() clears the first item of the array only.
resetFirstOnly ==
    /\ items' = [i \in DOMAIN items |->
                    IF watchlist # <<>> /\ i = watchlist[1]
                    THEN [items[i] EXCEPT !.triggered = <<>>]
                    ELSE items[i]]
    /\ calls' = [x \in {y \in DOMAIN calls : ~Contains(watchlist, y[1])} |->
                    calls[x]]
    /\ stored' = save(watchlist, items')
    /\ content' = written
    /\ op' = "reset"
    /\ args' = NoArgs
    /\ UNCHANGED << watchlist, nextId, isRunning, interval, timers, status,
                    inflight, now, notifCap, storageFull, daily, shape >>

\* The body of WatchlistManager.resetTriggered: it changes items, calls,
\* stored and content only.
resetCall ==
    /\ items' = [i \in DOMAIN items |->
                    IF Contains(watchlist, i)
                    THEN [items[i] EXCEPT !.triggered = <<>>]
                    ELSE items[i]]
    /\ calls' = [x \in {y \in DOMAIN calls : ~Contains(watchlist, y[1])} |->
                    calls[x]]
    /\ stored' = save(watchlist, items')
    /\ content' = written

\* A call of WatchlistManager.resetTriggered
resetTriggered ==
    /\ resetCall
    /\ op' = "reset"
    /\ args' = NoArgs
    /\ UNCHANGED << watchlist, nextId, isRunning, interval, timers, status,
                    inflight, now, notifCap, storageFull, daily, shape >>

\* Mutant: start() without its isRunning guard.
startNoGuard ==
    /\ CanFetch
    /\ Cardinality(timers) < MaxTimers
    /\ isRunning' = TRUE
    /\ checkCall
    /\ interval' = FreshTimer
    /\ timers' = timers \cup {FreshTimer}
    /\ op' = "start"
    /\ args' = NoArgs
    /\ UNCHANGED << watchlist, items, nextId, stored, now, notifCap,
                    storageFull, calls, daily, shape, content >>

\* Mutant: the first check of start() gated by market hours like the ticks.
startGated ==
    /\ IF isRunning
       THEN UNCHANGED << isRunning, interval, timers, status, inflight >>
       ELSE /\ CanFetch
            /\ Cardinality(timers) < MaxTimers
            /\ isRunning' = TRUE
            /\ IF isMarketHours(Clock) THEN checkCall
               ELSE UNCHANGED << status, inflight >>
            /\ interval' = FreshTimer
            /\ timers' = timers \cup {FreshTimer}
    /\ op' = "start"
    /\ args' = NoArgs
    /\ UNCHANGED << watchlist, items, nextId, stored, now, notifCap,
                    storageFull, calls, daily, shape, content >>

\* The body of WatchlistPolling.start: it changes isRunning, interval,
\* timers, status and inflight only.
startCall ==
    IF isRunning
    THEN UNCHANGED << isRunning, interval, timers, status, inflight >>
    ELSE /\ CanFetch
         /\ Cardinality(timers) < MaxTimers
         /\ isRunning' = TRUE
         /\ checkCall
         /\ interval' = FreshTimer
         /\ timers' = timers \cup {FreshTimer}

\* WatchlistPolling.start
start ==
    /\ startCall
    /\ op' = "start"
    /\ args' = NoArgs
    /\ UNCHANGED << watchlist, items, nextId, stored, now, notifCap,
                    storageFull, calls, daily, shape, content >>

\* Mutant: stop() drops the handle without clearInterval.
stopNoClear ==
    /\ interval' = 0
    /\ isRunning' = FALSE
    /\ status' = Status(StatusStopped)
    /\ op' = "stop"
    /\ args' = NoArgs
    /\ UNCHANGED << timers, inflight, watchlist, items, nextId, stored, now,
                    notifCap, storageFull, calls, daily, shape, content >>

\* Mutant: stop() clears the interval and leaves isRunning set.
stopKeepsRunning ==
    /\ timers' = IF interval # 0 THEN timers \ {interval} ELSE timers
    /\ interval' = 0
    /\ status' = Status(StatusStopped)
    /\ op' = "stop"
    /\ args' = NoArgs
    /\ UNCHANGED << isRunning, inflight, watchlist, items, nextId, stored, now,
                    notifCap, storageFull, calls, daily, shape, content >>

\* The body of WatchlistPolling.stop: it changes isRunning, interval, timers
\* and status, and leaves the outstanding fetches alone.
stopCall ==
    /\ timers' = IF interval # 0 THEN timers \ {interval} ELSE timers
    /\ interval' = 0
    /\ isRunning' = FALSE
    /\ status' = Status(StatusStopped)
    /\ inflight' = inflight

\* WatchlistPolling.stop
stop ==
    /\ stopCall
    /\ op' = "stop"
    /\ args' = NoArgs
    /\ UNCHANGED << watchlist, items, nextId, stored, now, notifCap,
                    storageFull, calls, daily, shape, content >>

\* Mutant: check() polls only while the scheduler is Running.
checkWhenRunning ==
    /\ CanFetch
    /\ IF isRunning THEN checkCall ELSE UNCHANGED << status, inflight >>
    /\ op' = "check"
    /\ args' = NoArgs
    /\ UNCHANGED << watchlist, items, nextId, stored, isRunning, interval,
                    timers, now, notifCap, storageFull, calls, daily, shape,
                    content >>

\* A manual WatchlistPolling.check() call
check ==
    /\ CanFetch
    /\ checkCall
    /\ op' = "check"
    /\ args' = NoArgs
    /\ UNCHANGED << watchlist, items, nextId, stored, isRunning, interval,
                    timers, now, notifCap, storageFull, calls, daily, shape,
                    content >>

\* Mutant: the timer callback without the market-hours test.
tickUngated(h) ==
    /\ h \in timers
    /\ CanFetch
    /\ checkCall
    /\ op' = "tick"
    /\ args' = NoArgs
    /\ UNCHANGED << watchlist, items, nextId, stored, isRunning, interval,
                    timers, now, notifCap, storageFull, calls, daily, shape,
                    content >>

\* The setInterval callback armed by start()
tick(h) ==
    /\ h \in timers
    /\ IF isMarketHours(Clock)
       THEN CanFetch /\ checkCall
       ELSE /\ status' = Status(StatusNonTrading)
            /\ inflight' = inflight
    /\ op' = "tick"
    /\ args' = NoArgs
    /\ UNCHANGED << watchlist, items, nextId, stored, isRunning, interval,
                    timers, now, notifCap, storageFull, calls, daily, shape,
                    content >>

\* check() resumes with a list of quotes: the try block after the await
fetchArray(i, stocks) ==
    /\ i \in 1..Len(inflight)
    /\ stocks \in Responses(inflight[i].codes)
    /\ LET st0 == [items |-> items, calls |-> calls, thrown |-> FALSE,
                   saved |-> FALSE]
           st == forEachStock(st0, inflight[i].snap, stocks, notifCap)
       IN  /\ inflight' = Remove(inflight, i)
           /\ items' = Collect(st.items, watchlist, inflight')
           /\ calls' = st.calls
           /\ stored' = IF st.saved THEN save(watchlist, st.items) ELSE stored
           /\ content' = IF st.saved THEN written ELSE content
           /\ status' = IF st.thrown THEN Status(StatusFailed)
                        ELSE RunningStatus(Clock)
    /\ op' = "fetch-array"
    /\ args' = <<i, stocks>>
    /\ UNCHANGED << watchlist, nextId, isRunning, interval, timers, now,
                    notifCap, storageFull, daily, shape >>

\* Mutant: no catch around the try block, so the status written before
\* stocks.forEach fails is the one that stays.
fetchFailNoCatch(i, how) ==
    /\ i \in 1..Len(inflight)
    /\ how \in Failures
    /\ inflight' = Remove(inflight, i)
    /\ items' = Collect(items, watchlist, inflight')
    /\ status' = IF how = "notarray" THEN RunningStatus(Clock) ELSE status
    /\ op' = "fetch-fail"
    /\ args' = NoArgs
    /\ UNCHANGED << watchlist, nextId, stored, isRunning, interval, timers,
                    now, notifCap, storageFull, calls, daily, shape,
                    content >>

\* Mutant: the catch block of check() stops the scheduler.
fetchFailStops(i, how) ==
    /\ i \in 1..Len(inflight)
    /\ how \in Failures
    /\ inflight' = Remove(inflight, i)
    /\ items' = Collect(items, watchlist, inflight')
    /\ status' = Status(StatusFailed)
    /\ timers' = IF interval # 0 THEN timers \ {interval} ELSE timers
    /\ interval' = 0
    /\ isRunning' = FALSE
    /\ op' = "fetch-fail"
    /\ args' = NoArgs
    /\ UNCHANGED << watchlist, nextId, stored, now, notifCap, storageFull,
                    calls, daily, shape, content >>

\* check() resumes in its catch block, or reaches it from the try block
fetchFail(i, how) ==
    /\ i \in 1..Len(inflight)
    /\ how \in Failures
    /\ inflight' = Remove(inflight, i)
    /\ items' = Collect(items, watchlist, inflight')
    /\ status' = Status(StatusFailed)
    /\ op' = "fetch-fail"
    /\ args' = NoArgs
    /\ UNCHANGED << watchlist, nextId, stored, isRunning, interval, timers,
                    now, notifCap, storageFull, calls, daily, shape,
                    content >>

\* The local clock moves on to the next instant.
advance ==
    /\ \E k \in 1..Len(ClockPoints) :
           /\ ClockPoints[k] = now
           /\ now' = ClockPoints[(k % Len(ClockPoints)) + 1]
    /\ op' = "clock"
    /\ args' = NoArgs
    /\ UNCHANGED << watchlist, items, nextId, stored, isRunning, interval,
                    timers, status, inflight, notifCap, storageFull, calls,
                    daily, shape, content >>

\* The user answers the permission prompt.
permission(p) ==
    /\ notifCap = "default"
    /\ p \in {"granted", "denied"}
    /\ notifCap' = p
    /\ op' = "permission"
    /\ args' = NoArgs
    /\ UNCHANGED << watchlist, items, nextId, stored, isRunning, interval,
                    timers, status, inflight, now, calls, storageFull, daily,
                    shape, content >>

\* Mutant: the toggle starts polling whatever Notification.permission is.
toggleAnyPermission ==
    /\ IF isRunning THEN stopCall
       ELSE IF Len(watchlist) = 0
            THEN UNCHANGED << isRunning, interval, timers, status, inflight >>
            ELSE startCall
    /\ op' = "toggle"
    /\ args' = NoArgs
    /\ UNCHANGED << watchlist, items, nextId, stored, now, notifCap, calls,
                    storageFull, daily, shape, content >>

\* toggleWatchlistPolling, the handler of the start/stop button: stop() when
\* Running; otherwise nothing on an empty watchlist, start() when permission
\* is granted, requestPermission() when it is 'default', nothing when it is
\* denied or when reading Notification.permission throws.  "prompt" stands
\* for permission 'default' with the promise of that request pending.
toggleWatchlistPolling ==
    /\ IF isRunning THEN stopCall /\ notifCap' = notifCap
       ELSE IF Len(watchlist) = 0
            THEN UNCHANGED << isRunning, interval, timers, status, inflight,
                              notifCap >>
            ELSE IF notifCap \in {"default", "prompt"}
                 THEN /\ notifCap' = "prompt"
                      /\ UNCHANGED << isRunning, interval, timers, status,
                                      inflight >>
                 ELSE IF notifCap = "granted"
                      THEN startCall /\ notifCap' = notifCap
                      ELSE UNCHANGED << isRunning, interval, timers, status,
                                        inflight, notifCap >>
    /\ op' = "toggle"
    /\ args' = NoArgs
    /\ UNCHANGED << watchlist, items, nextId, stored, now, calls,
                    storageFull, daily, shape, content >>

\* The then-callback of the requestPermission() the toggle made: the user
\* has answered p (or dismissed the prompt, which leaves 'default'), and
\* the callback calls start() when p is 'granted'.
requestPermissionThen(p) ==
    /\ notifCap = "prompt"
    /\ p \in {"granted", "denied", "default"}
    /\ notifCap' = p
    /\ IF p = "granted" THEN startCall
       ELSE UNCHANGED << isRunning, interval, timers, status, inflight >>
    /\ op' = "answer"
    /\ args' = <<p>>
    /\ UNCHANGED << watchlist, items, nextId, stored, now, calls,
                    storageFull, daily, shape, content >>

\* localStorage starts or stops refusing writes (quota exceeded, storage
\* disabled by the browser).
quota ==
    /\ storageFull' = ~storageFull
    /\ op' = "storage"
    /\ args' = NoArgs
    /\ UNCHANGED << watchlist, items, nextId, stored, isRunning, interval,
                    timers, status, inflight, now, notifCap, calls, daily,
                    shape, content >>

Next ==
    \/ \E c \in Codes, r \in RuleSets : add(c, r)
    \/ \E id \in Ids : remove(id)
    \/ \E id \in Ids, r \in RuleSets : update(id, r)
    \/ resetTriggered
    \/ start
    \/ stop
    \/ check
    \/ \E h \in 1..MaxTimers : tick(h)
    \/ \E i \in 1..Len(inflight) :
           \E stocks \in Responses(inflight[i].codes) : fetchArray(i, stocks)
    \/ \E i \in 1..Len(inflight), how \in Failures : fetchFail(i, how)
    \/ advance
    \/ \E p \in {"granted", "denied"} : permission(p)
    \/ quota

\* The whole engine, every operation with every input.
Spec == Init /\ [][Next]_vars

(* ----------------- the scheduler over a plain watchlist ---------------- *)
\* start, stop, the timer, manual checks, the fetches they issue and the
\* daily reset, on hosts with and without a Notification global.  Items are
\* added but neither edited nor removed: update() and remove() touch no
\* field of the scheduler, and without them the state space stays small
\* enough to explore with three items and three outstanding fetches.
\* Items the user adds in the scheduler's specification.
SchedulerItems ==
    { <<"2330", <<Rule("price_above", 10000, TRUE)>> >> }

InitScheduler == Init /\ notifCap \in {"granted", "absent"} /\ ~storageFull

NextScheduler ==
    \/ \E x \in SchedulerItems : add(x[1], x[2])
    \/ resetTriggered
    \/ start
    \/ stop
    \/ check
    \/ \E h \in 1..MaxTimers : tick(h)
    \/ \E i \in 1..Len(inflight) :
           \E stocks \in Responses(inflight[i].codes) : fetchArray(i, stocks)
    \/ \E i \in 1..Len(inflight), how \in Failures : fetchFail(i, how)
    \/ advance

SpecScheduler == InitScheduler /\ [][NextScheduler]_vars

(* ------------- the market-hours predicate seen through ticks ----------- *)
\* Local times the predicate is probed at: every day of the week, the hours
\* around both ends of the window, and the minutes and seconds around :30.
ProbeTimes ==
    { Time(d, h, m, sec) : d \in 0..6, h \in {0, 8, 9, 10, 12, 13, 14, 23},
                           m \in {0, 29, 30, 31, 59}, sec \in {0, 1, 59} }

ProbeItem ==
    [id |-> 1, stock_code |-> "2330",
     alerts |-> <<Rule("price_above", 10000, TRUE)>>, triggered |-> <<>>,
     created_at |-> 1]

\* The engine after add("2330", ...), start() and the rejection of the
\* first fetch, at any probed time.
InitMarketHours ==
    /\ watchlist = <<1>>
    /\ items = <<ProbeItem>>
    /\ nextId = 2
    /\ stored = Serialize(<<1>>, <<ProbeItem>>)
    /\ isRunning = TRUE
    /\ interval = 1
    /\ timers = {1}
    /\ status = Status(StatusFailed)
    /\ inflight = <<>>
    /\ now \in ProbeTimes
    /\ notifCap = "granted"
    /\ calls = <<>>
    /\ storageFull = FALSE
    /\ daily = Armed(notifCap, now)
    /\ shape = "array"
    /\ content = "array"
    /\ args = NoArgs
    /\ op = "fetch-fail"

NextMarketHours ==
    \/ \E h \in 1..MaxTimers : tick(h)
    \/ \E i \in 1..Len(inflight) : fetchFail(i, "reject")

SpecMarketHours == InitMarketHours /\ [][NextMarketHours]_vars

(* ----------------- checkAlerts on one item and one quote --------------- *)
\* Rules per item in the evaluator's specification.
MaxRules == 2

\* One rule of every kind, enabled or not, at the threshold the probed
\* quotes lie around.
EvalRules ==
    { Rule(t, v, e) :
        t \in {"price_above", "price_below"}, v \in {10000}, e \in BOOLEAN }
    \cup
    { Rule(t, v, e) :
        t \in {"change_percent_above", "change_percent_below"}, v \in {0},
        e \in BOOLEAN }
    \cup
    { Rule("bid_ask_ratio_above", 100, e) : e \in BOOLEAN }

EvalRuleSets == UNION { [1..n -> EvalRules] : n \in 1..MaxRules }

\* Quotes with every field at its threshold, and with one field just below
\* or just above it.
EvalQuotes ==
    { [code |-> "2330", price |-> 10000 + d[1], change_percent |-> d[2],
       bid_ask_ratio |-> 100 + d[3]] :
        d \in { <<0, 0, 0>>, <<-1, 0, 0>>, <<1, 0, 0>>, <<0, -1, 0>>,
                <<0, 1, 0>>, <<0, 0, -1>>, <<0, 0, 1>> } }

\* The keys of the rules of r whose positions are in S, in rule order.
KeysAt(r, S) ==
    LET sel == SelectSeq([k \in 1..Len(r) |-> k], LAMBDA k : k \in S)
    IN  [j \in 1..Len(sel) |-> alertKey(r[sel[j]], sel[j] - 1)]

\* Trigger ledgers an item with rules r can have.
Ledgers(r) == { KeysAt(r, S) : S \in SUBSET (1..Len(r)) }

EvalItem(r, t) ==
    [id |-> 1, stock_code |-> "2330", alerts |-> r, triggered |-> t,
     created_at |-> 1]

\* One item whose rules and ledger are any of the above, no poll outstanding.
InitEvaluate ==
    /\ watchlist = <<1>>
    /\ \E r \in EvalRuleSets : \E t \in Ledgers(r) :
           /\ items = <<EvalItem(r, t)>>
           /\ stored = Serialize(<<1>>, <<EvalItem(r, t)>>)
    /\ nextId = 2
    /\ isRunning = FALSE
    /\ interval = 0
    /\ timers = {}
    /\ status = Status(StatusUnset)
    /\ inflight = <<>>
    /\ now = ClockPoints[2]
    /\ notifCap \in {"granted", "absent"}
    /\ calls = <<>>
    /\ storageFull = FALSE
    /\ daily = Armed(notifCap, now)
    /\ shape = "array"
    /\ content = "array"
    /\ args = NoArgs
    /\ op = "init"

\* this.checkAlerts(item, stock), as check() calls it for one item of the
\* watchlist and the quote of its code.
checkAlertsCall(id, q) ==
    /\ Contains(watchlist, id)
    /\ q.code = items[id].stock_code
    /\ LET st0 == [items |-> items, calls |-> calls, thrown |-> FALSE,
                   saved |-> FALSE]
           st == checkAlerts(st0, id, q, notifCap)
       IN  /\ items' = st.items
           /\ calls' = st.calls
           /\ stored' = IF st.saved THEN save(watchlist, st.items) ELSE stored
           /\ content' = IF st.saved THEN written ELSE content
    /\ op' = "check-alerts"
    /\ args' = <<id, q>>
    /\ UNCHANGED << watchlist, nextId, isRunning, interval, timers, status,
                    inflight, now, notifCap, storageFull, daily, shape >>

NextEvaluate == \E id \in Ids : \E q \in EvalQuotes : checkAlertsCall(id, q)

SpecEvaluate == InitEvaluate /\ [][NextEvaluate]_vars

(* --------------------- the store, its ledger and polls ----------------- *)
\* Rule lists handed to add() and update() in the store's specification:
\* none, one enabled rule, the same rule disabled.
StoreRules ==
    { <<>>,
      <<Rule("price_above", 10000, TRUE)>>,
      <<Rule("price_above", 10000, FALSE)>> }

InitStore ==
    Init /\ now = ClockPoints[2] /\ notifCap = "granted" /\ ~storageFull

\* Every operation of WatchlistManager on items of one instrument, and
\* manual polls with their fetches, one poll at a time and with no
\* scheduler running.  Manager calls interleave with the outstanding fetch.
NextStore ==
    \/ \E r \in StoreRules : add("2330", r)
    \/ \E id \in Ids : remove(id)
    \/ \E id \in Ids, r \in StoreRules : update(id, r)
    \/ resetTriggered
    \/ (inflight = <<>> /\ check)
    \/ \E i \in 1..Len(inflight) :
           \E stocks \in Responses(inflight[i].codes) : fetchArray(i, stocks)
    \/ \E i \in 1..Len(inflight), how \in Failures : fetchFail(i, how)

SpecStore == InitStore /\ [][NextStore]_vars

(* ------------------- the order of the items of the store --------------- *)
\* An item of an earlier session, which the constructor loads.
LoadedItem ==
    [id |-> 0, stock_code |-> "2330",
     alerts |-> <<Rule("price_above", 10000, TRUE)>>, triggered |-> <<>>,
     created_at |-> 0]

\* The manager after its constructor has loaded one persisted item.
InitOrder ==
    /\ watchlist = <<0>>
    /\ items = [i \in {0} |-> LoadedItem]
    /\ nextId = 1
    /\ stored = <<LoadedItem>>
    /\ isRunning = FALSE
    /\ interval = 0
    /\ timers = {}
    /\ status = Status(StatusUnset)
    /\ inflight = <<>>
    /\ now = ClockPoints[2]
    /\ notifCap = "granted"
    /\ calls = <<>>
    /\ storageFull = FALSE
    /\ daily = Armed(notifCap, now)
    /\ shape = "array"
    /\ content = "array"
    /\ args = NoArgs
    /\ op = "init"

\* The operations of the store and one poll at a time, on up to MaxItems
\* items added after the loaded one.
NextOrder ==
    \/ add("2330", <<Rule("price_above", 10000, TRUE)>>)
    \/ \E id \in 0..MaxItems : remove(id)
    \/ \E id \in 0..MaxItems : update(id, <<Rule("price_above", 10000, FALSE)>>)
    \/ resetTriggered
    \/ (inflight = <<>> /\ check)
    \/ \E i \in 1..Len(inflight) :
           \E stocks \in Responses(inflight[i].codes) : fetchArray(i, stocks)
    \/ \E i \in 1..Len(inflight) : fetchFail(i, "reject")

SpecOrder == InitOrder /\ [][NextOrder]_vars

(* ------------------ the store when localStorage refuses ---------------- *)
InitStorage == Init /\ now = ClockPoints[2] /\ notifCap = "granted"

\* The mutating calls of the manager and one poll at a time, while
\* localStorage accepts writes or throws on setItem.
NextStorage ==
    \/ add("2330", <<Rule("price_above", 10000, TRUE)>>)
    \/ \E id \in Ids : remove(id)
    \/ \E id \in Ids : update(id, <<Rule("price_above", 10000, FALSE)>>)
    \/ resetTriggered
    \/ (inflight = <<>> /\ check)
    \/ \E i \in 1..Len(inflight) :
           \E stocks \in Responses(inflight[i].codes) : fetchArray(i, stocks)
    \/ \E i \in 1..Len(inflight) : fetchFail(i, "reject")
    \/ quota

SpecStorage == InitStorage /\ [][NextStorage]_vars

(* ----------------------- page load and daily reset --------------------- *)
\* What localStorage holds under 'stock_watchlist' when the page loads: an
\* array written by save(), nothing, a store whose getItem throws, text that
\* JSON.parse rejects, or the JSON texts 'null' and '{}'.
Contents == {"array", "nodata", "unavailable", "badjson", "null", "object"}

\* Contents for which loading the persisted collection fails.
LoadFailures == {"unavailable", "badjson", "null", "object"}

\* load(): JSON.parse(data) when there is data, [] when there is none and in
\* the catch block.  The value it returns is an array, null or an object.
loadShape(c) == IF c \in {"null", "object"} THEN c ELSE "array"

\* The array load() returns, empty when it returns no array.
load(c, st) == IF c = "array" THEN st ELSE <<>>

\* The arrays an earlier session has saved.
SavedLists ==
    { <<>>, <<LoadedItem>>,
      << [LoadedItem EXCEPT !.triggered = <<alertKey(LoadedItem.alerts[1], 0)>>]
      >> }

\* The instants of a week at which the clock is read: inside the trading
\* hours of a weekday, at the reset time and one second after it.
DailyPoints ==
    [k \in 1..21 |->
        LET d == (k - 1) \div 3
        IN  CASE (k - 1) % 3 = 0 -> Time(d, 10, 0, 0)
              [] (k - 1) % 3 = 1 -> Time(d, 14, 30, 0)
              [] OTHER           -> Time(d, 14, 30, 1)]

\* The document before initWatchlist has run.
InitStartup ==
    /\ watchlist = <<>>
    /\ items = <<>>
    /\ nextId = 1
    /\ content \in Contents
    /\ stored \in IF content = "array" THEN SavedLists ELSE {<<>>}
    /\ isRunning = FALSE
    /\ interval = 0
    /\ timers = {}
    /\ status = Status(StatusUnset)
    /\ inflight = <<>>
    /\ now \in Range(DailyPoints)
    /\ notifCap \in NotifCaps
    /\ calls = <<>>
    /\ storageFull = (content = "unavailable")
    /\ daily = NoDaily
    /\ shape = "array"
    /\ args = NoArgs
    /\ op = "page"

\* initWatchlist: the constructor of the manager loads the store; reading
\* Notification.permission throws where there is no Notification global and
\* reading .length of null throws inside market hours, which ends the
\* function; otherwise polling starts inside market hours with a non-empty
\* array, and the timeout of the daily reset is armed.  watchlist is the
\* empty sequence while the manager holds no array (shape says what it
\* holds).
initWatchlist ==
    /\ op = "page"
    /\ LET wl == load(content, stored)
           throws == \/ notifCap = "absent"
                     \/ isMarketHours(now) /\ content = "null"
           starts == /\ ~throws
                     /\ isMarketHours(now)
                     /\ loadShape(content) = "array"
                     /\ Len(wl) > 0
       IN  /\ watchlist' = [k \in 1..Len(wl) |-> wl[k].id]
           /\ items' = [i \in {wl[k].id : k \in 1..Len(wl)} |->
                           CHOOSE x \in Range(wl) : x.id = i]
           /\ shape' = loadShape(content)
           /\ IF starts
              THEN /\ isRunning' = TRUE
                   /\ inflight' = <<[snap |-> watchlist', shared |-> TRUE,
                                     codes |-> codesOf(watchlist', items')]>>
                   /\ interval' = FreshTimer
                   /\ timers' = {FreshTimer}
              ELSE UNCHANGED << isRunning, inflight, interval, timers >>
           /\ daily' = IF throws THEN NoDaily
                       ELSE [kind |-> "timeout", due |-> NextReset(now)]
    /\ op' = "init"
    /\ args' = NoArgs
    /\ UNCHANGED << nextId, stored, status, now, notifCap, calls, storageFull,
                    content >>

\* The callback of the daily timer, which runs when the timer is due: the
\* timeout calls resetTriggered() and then arms the 24-hour interval, the
\* interval calls resetTriggered().  Where the manager holds no array,
\* resetTriggered() throws, in the timeout before the interval is armed.
dailyReset ==
    /\ daily.kind # "none"
    /\ daily.due = now
    /\ IF shape = "array" THEN resetCall
       ELSE UNCHANGED << items, calls, stored, content >>
    /\ daily' = IF daily.kind = "timeout" /\ shape # "array" THEN NoDaily
                ELSE [kind |-> "interval", due |-> DayLater(daily.due)]
    /\ op' = "daily-reset"
    /\ args' = NoArgs
    /\ UNCHANGED << watchlist, nextId, isRunning, interval, timers, status,
                    inflight, now, notifCap, storageFull, shape >>

\* The local clock moves on to the next instant, once the page has loaded
\* and the timer that is due has run.
elapse ==
    /\ op # "page"
    /\ ~(daily.kind # "none" /\ daily.due = now)
    /\ \E k \in 1..Len(DailyPoints) :
           /\ DailyPoints[k] = now
           /\ now' = DailyPoints[(k % Len(DailyPoints)) + 1]
    /\ op' = "elapse"
    /\ args' = NoArgs
    /\ UNCHANGED << watchlist, items, nextId, stored, isRunning, interval,
                    timers, status, inflight, notifCap, storageFull, calls,
                    daily, shape, content >>

\* The page loads, the clock runs, and the user adds items and starts and
\* stops polling while the quote service does not answer.
NextStartup ==
    \/ initWatchlist
    \/ dailyReset
    \/ elapse
    \/ (op # "page" /\ shape = "array"
          /\ add("2330", <<Rule("price_above", 10000, TRUE)>>))
    \/ (op # "page" /\ shape = "array" /\ start)
    \/ (op # "page" /\ shape = "array" /\ stop)
    \/ \E i \in 1..Len(inflight) : fetchFail(i, "reject")

SpecStartup == InitStartup /\ [][NextStartup]_vars

(* ------------------- editing the rules of a fired item ----------------- *)
\* The rule list the form hands to update(): the rule of the item with a
\* lower threshold.
EditedRules == { <<Rule("price_above", 9999, TRUE)>> }

InitEdit ==
    /\ Init
    /\ now = ClockPoints[2]
    /\ notifCap \in {"granted", "absent"}
    /\ ~storageFull

\* The calls of the store, of the scheduler and its timer, and the polls
\* they begin, one at a time.
NextEdit ==
    \/ add("2330", <<Rule("price_above", 10000, TRUE)>>)
    \/ \E id \in Ids : remove(id)
    \/ \E id \in Ids, alerts \in EditedRules : update(id, alerts)
    \/ resetTriggered
    \/ (inflight = <<>> /\ start)
    \/ stop
    \/ (inflight = <<>> /\ check)
    \/ \E h \in 1..MaxTimers : (inflight = <<>> /\ tick(h))
    \/ \E i \in 1..Len(inflight) :
           \E stocks \in Responses(inflight[i].codes) : fetchArray(i, stocks)
    \/ \E i \in 1..Len(inflight) : fetchFail(i, "reject")

SpecEdit == InitEdit /\ [][NextEdit]_vars

(* --------------------- polls on items of two codes --------------------- *)
InitBatch ==
    /\ Init
    /\ now = ClockPoints[2]
    /\ notifCap \in {"granted", "absent"}
    /\ ~storageFull

\* Items of two codes, one poll at a time whose response may omit codes,
\* and the reset.
NextBatch ==
    \/ \E code \in Codes : add(code, <<Rule("price_above", 10000, TRUE)>>)
    \/ resetTriggered
    \/ (inflight = <<>> /\ check)
    \/ \E i \in 1..Len(inflight) :
           \E stocks \in Responses(inflight[i].codes) : fetchArray(i, stocks)
    \/ \E i \in 1..Len(inflight) : fetchFail(i, "reject")

SpecBatch == InitBatch /\ [][NextBatch]_vars

(* ------------------------ the start/stop button ------------------------ *)
InitToggle == Init /\ now = ClockPoints[2] /\ ~storageFull

\* The user adds and removes items, clicks the button and answers the
\* permission prompt, while the quote service does not answer the polls
\* that start() begins.
NextToggle ==
    \/ add("2330", <<Rule("price_above", 10000, TRUE)>>)
    \/ \E id \in Ids : remove(id)
    \/ toggleWatchlistPolling
    \/ \E p \in {"granted", "denied", "default"} : requestPermissionThen(p)
    \/ \E i \in 1..Len(inflight) : fetchFail(i, "reject")

SpecToggle == InitToggle /\ [][NextToggle]_vars

(* ------------------------------- claims -------------------------------- *)

SecondsOfDay(t) == (t.hour * 3600) + (t.minute * 60) + t.second

\* Monday to Friday, 09:00:00 up to and including 13:30:59.
TradingWindow(t) ==
    /\ t.day \in 1..5
    /\ SecondsOfDay(t) >= 9 * 3600
    /\ SecondsOfDay(t) <= (13 * 3600) + (30 * 60) + 59

\* Monday to Friday, 09:00:00 up to and including 13:30:00.
WindowToTheSecond(t) ==
    /\ t.day \in 1..5
    /\ SecondsOfDay(t) >= 9 * 3600
    /\ SecondsOfDay(t) <= (13 * 3600) + (30 * 60)

\* The step begins exactly one poll: on an empty watchlist it publishes the
\* idle status and issues no fetch, otherwise it issues one fetch for the
\* codes of the watchlist and leaves the status alone.
OnePollStarted ==
    IF Len(watchlist) = 0
    THEN inflight' = inflight /\ status' = Status(StatusIdle)
    ELSE /\ Len(inflight') = Len(inflight) + 1
         /\ SubSeq(inflight', 1, Len(inflight)) = inflight
         /\ inflight'[Len(inflight')].codes =
                [k \in 1..Len(watchlist) |-> items[watchlist[k]].stock_code]
         /\ status' = status

\* The trigger ledger of every item of the watchlist is left as it was.
LedgerUnchanged ==
    /\ watchlist' = watchlist
    /\ \A k \in 1..Len(watchlist) :
           items'[watchlist[k]].triggered = items[watchlist[k]].triggered

\* C1: between two resets notify is called at most once for each rule key
\* of each item, however many successful polls find its condition true.
NoDoubleFire == \A x \in DOMAIN calls : calls[x] <= 1

\* C2: a poll whose fetch fails publishes check-failed and leaves the
\* triggered keys of every item, the notify calls and the store as they were.
FailedFetchLeavesLedger ==
    [][op' = "fetch-fail" =>
          /\ status' = Status(StatusFailed)
          /\ LedgerUnchanged
          /\ calls' = calls
          /\ stored' = stored]_vars

FailedFetchSeen ==
    /\ op = "fetch-fail"
    /\ status = Status(StatusFailed)
    /\ \E k \in 1..Len(watchlist) : items[watchlist[k]].triggered # <<>>
    /\ inflight # <<>>

\* C3: in every reachable state at most one quote fetch is outstanding.
AtMostOneFetchInFlight == Len(inflight) <= 1

\* C4: a poll whose fetch was outstanding when stop() was called adds no
\* triggered key and calls no notify when it completes right after stop().
StoppedPollNotApplied ==
    [][(op = "stop" /\ op' = "fetch-array") =>
          (LedgerUnchanged /\ calls' = calls)]_vars

\* C5: stop() leaves the scheduler Stopped with no timer armed, on a Stopped
\* scheduler it changes neither the scheduler nor the store, and a timer
\* tick only ever runs while the scheduler is Running.
StopCancelsTimer ==
    [][/\ op' = "stop" =>
            /\ ~isRunning' /\ interval' = 0 /\ timers' = {}
            /\ ~isRunning =>
                  UNCHANGED << isRunning, interval, timers, watchlist, items,
                               stored, inflight, calls >>
       /\ op' = "tick" => isRunning]_vars

StopSeen ==
    /\ op = "stop"
    /\ ~isRunning /\ interval = 0 /\ timers = {}
    /\ inflight # <<>>
    /\ status = Status(StatusStopped)

\* C6 as claimed: a tick issues a fetch exactly at the Monday-Friday times
\* from 09:00:00 to 13:30:00.
MarketHoursToTheSecond ==
    [][op' = "tick" =>
          ((Len(inflight') = Len(inflight) + 1) <=> WindowToTheSecond(now))]_vars

\* C6 amended: a tick issues a fetch exactly at the Monday-Friday times whose
\* hour and minute lie from 09:00 to 13:30, seconds not being read: from
\* 09:00:00 to 13:30:59.
MarketHoursToTheMinute ==
    [][op' = "tick" =>
          ((Len(inflight') = Len(inflight) + 1) <=> TradingWindow(now))]_vars

LastMinuteTickSeen ==
    /\ op = "tick"
    /\ now = Time(3, 13, 30, 59)
    /\ Len(inflight) = 1

\* C7: a timer tick outside market hours issues no fetch, changes no
\* triggered key and publishes non-trading; a tick inside market hours
\* begins a poll.
TickGatedByMarketHours ==
    [][op' = "tick" =>
          IF TradingWindow(now)
          THEN OnePollStarted
          ELSE /\ inflight' = inflight
               /\ status' = Status(StatusNonTrading)
               /\ LedgerUnchanged
               /\ calls' = calls]_vars

SkippedTickSeen ==
    /\ op = "tick"
    /\ ~TradingWindow(now)
    /\ status = Status(StatusNonTrading)
    /\ \E k \in 1..Len(watchlist) : items[watchlist[k]].triggered # <<>>

\* C8: start() on a Running scheduler changes nothing, and at most one poll
\* timer is armed in every reachable state.
StartWhileRunningIsNoOp ==
    /\ [][(op' = "start" /\ isRunning) =>
             UNCHANGED << watchlist, items, nextId, stored, isRunning,
                          interval, timers, status, inflight, now, notifCap,
                          storageFull, calls, daily, shape, content >>]_vars
    /\ [](Cardinality(timers) <= 1)

\* The non-trading status is only written by a tick, and stop() overwrites
\* it: a start() that finds it and leaves it was made while Running.
RestartSeen ==
    /\ op = "start"
    /\ isRunning
    /\ status = Status(StatusNonTrading)
    /\ Cardinality(timers) = 1

\* C9: start() on a Stopped scheduler makes it Running, begins exactly one
\* poll in the same step, inside market hours or not, and arms one timer.
StartFromStopped ==
    [][(op' = "start" /\ ~isRunning) =>
          /\ isRunning'
          /\ OnePollStarted
          /\ interval' # 0
          /\ timers' = {interval'}]_vars

StartOutsideHoursSeen ==
    /\ op = "start"
    /\ isRunning
    /\ ~TradingWindow(now)
    /\ Len(inflight) = 1
    /\ status = Status(StatusUnset)

\* C10: a manual check() begins exactly one poll, whether the scheduler is
\* Stopped or Running and whatever the clock says, and leaves the Running
\* flag and the timer alone.
ManualCheckPolls ==
    [][op' = "check" =>
          /\ OnePollStarted
          /\ UNCHANGED << isRunning, interval, timers >>]_vars

ManualCheckSeen ==
    /\ op = "check"
    /\ ~isRunning
    /\ ~TradingWindow(now)
    /\ Len(inflight) = 2

\* The condition table of the evaluator: above-rules hold at or over the
\* threshold, below-rules at or under it.
HoldsInclusive(a, q) ==
    \/ a.type = "price_above" /\ q.price >= a.value
    \/ a.type = "price_below" /\ q.price <= a.value
    \/ a.type = "change_percent_above" /\ q.change_percent >= a.value
    \/ a.type = "change_percent_below" /\ q.change_percent <= a.value
    \/ a.type = "bid_ask_ratio_above" /\ q.bid_ask_ratio >= a.value

\* Rule number k of the item is enabled, its key is not in the ledger and
\* its condition holds against q.
Eligible(item, q, k) ==
    /\ item.alerts[k].enabled
    /\ ~Contains(item.triggered, alertKey(item.alerts[k], k - 1))
    /\ HoldsInclusive(item.alerts[k], q)

\* The step recorded the key of rule number k of item id.
Fired(id, k) ==
    /\ ~Contains(items[id].triggered, alertKey(items[id].alerts[k], k - 1))
    /\ Contains(items'[id].triggered, alertKey(items[id].alerts[k], k - 1))

\* C11: for one item and one quote, the rules that fire are exactly those
\* that are enabled, whose key is not yet in the ledger and whose condition
\* holds under the inclusive table.
FiresExactlyEligible ==
    [][op' = "check-alerts" =>
          \A id \in Range(watchlist) : \A k \in 1..Len(items[id].alerts) :
              Fired(id, k) <=> Eligible(items[id], args'[2], k)]_vars

\* The same on hosts that have a Notification global.
FiresExactlyEligibleWithNotification ==
    [][(op' = "check-alerts" /\ notifCap # "absent") =>
          \A id \in Range(watchlist) : \A k \in 1..Len(items[id].alerts) :
              Fired(id, k) <=> Eligible(items[id], args'[2], k)]_vars

\* C12: a poll's evaluation of an item never calls notify for a disabled
\* rule and never records its key, whatever the quote, and leaves the rule
\* in the item's rules with its kind and threshold.
DisabledRuleSilent ==
    [][op' = "check-alerts" =>
          \A id \in Range(watchlist) : \A k \in 1..Len(items[id].alerts) :
              ~items[id].alerts[k].enabled =>
                  LET key == alertKey(items[id].alerts[k], k - 1)
                  IN  /\ Count(calls', <<id, key>>) = Count(calls, <<id, key>>)
                      /\ Contains(items'[id].triggered, key) <=>
                             Contains(items[id].triggered, key)
                      /\ items'[id].alerts = items[id].alerts]_vars

\* A disabled rule has just been evaluated against a quote that meets its
\* condition, with its key not in the ledger: nothing was notified or
\* recorded.
DisabledRuleSkippedSeen ==
    /\ op = "check-alerts"
    /\ notifCap = "granted"
    /\ Len(items[1].alerts) = 1
    /\ ~items[1].alerts[1].enabled
    /\ HoldsInclusive(items[1].alerts[1], args[2])
    /\ items[1].triggered = <<>>
    /\ calls = <<>>

\* WatchlistManager.getAll: the items of the array, in its order.
getAll == [k \in 1..Len(watchlist) |-> items[watchlist[k]]]

\* The step appended one item made of the arguments of add(), with an
\* empty ledger, after the items that were there, which it left alone.
Appended ==
    /\ Len(watchlist') = Len(watchlist) + 1
    /\ \A k \in 1..Len(watchlist) :
           /\ watchlist'[k] = watchlist[k]
           /\ items'[watchlist[k]] = items[watchlist[k]]
    /\ LET new == items'[watchlist'[Len(watchlist')]]
       IN  /\ new.stock_code = args'[1]
           /\ new.alerts = args'[2]
           /\ new.triggered = <<>>
           /\ \A k \in 1..Len(watchlist) : items[watchlist[k]].id # new.id

\* C13: add() with an empty rule list leaves the store as it was, and with
\* any other rule list appends a new item with an empty ledger, also when
\* the instrument is already watched.
AddRejectsEmptyRules ==
    [][op' = "add" =>
          IF args'[2] = <<>>
          THEN UNCHANGED << watchlist, items, stored >>
          ELSE Appended]_vars

\* What add() does with every rule list, the empty one included.
AddAlwaysAppends == [][op' = "add" => Appended]_vars

\* WatchlistManager.get
get(its, wl, id) == IF Contains(wl, id) THEN its[id] ELSE <<>>

\* C14: after update(id, newRules) on a known id, get(id) has rules equal
\* to newRules and the ledger, id, code and creation time it had before,
\* and every other item and the order of the items are as they were.
UpdateRoundTrip ==
    [][(op' = "update" /\ Contains(watchlist, args'[1])) =>
          LET id == args'[1]
              before == get(items, watchlist, id)
              after == get(items', watchlist', id)
          IN  /\ after.alerts = args'[2]
              /\ after.triggered = before.triggered
              /\ after.id = before.id
              /\ after.stock_code = before.stock_code
              /\ after.created_at = before.created_at
              /\ watchlist' = watchlist
              /\ \A other \in Range(watchlist) :
                     other # id => items'[other] = items[other]]_vars

\* update() has just replaced the rules of an item whose key was recorded
\* under its former rule, next to another item with a recorded key.
UpdateKeptLedgerSeen ==
    /\ op = "update"
    /\ Len(watchlist) = 2
    /\ args[1] = watchlist[1]
    /\ args[2] = <<Rule("price_above", 10000, FALSE)>>
    /\ items[args[1]].alerts = args[2]
    /\ items[args[1]].triggered = <<alertKey(args[2][1], 0)>>
    /\ items[watchlist[2]].triggered # <<>>

\* C15: update() with an id that is not in the store changes no item, in
\* memory or in localStorage, and adds none.
UpdateUnknownIsNoOp ==
    [][(op' = "update" /\ ~Contains(watchlist, args'[1])) =>
          UNCHANGED << watchlist, items, stored, nextId >>]_vars

\* update() has just been called with the id of an item that was removed
\* while a poll still held it, the other item being in the store.
UpdateOfRemovedSeen ==
    /\ op = "update"
    /\ watchlist = <<2>>
    /\ args[1] = 1
    /\ 1 \in DOMAIN items
    /\ args[2] # items[1].alerts
    /\ stored = Serialize(watchlist, items)

\* C16: remove(id) takes exactly the item with that id out of the array and
\* leaves the other items, and their order, as they were; with an id that
\* is not in the store, a second removal of the same id included, the
\* collection is unchanged.
RemoveDeletesOne ==
    [][op' = "remove" =>
          /\ watchlist' = SelectSeq(watchlist, LAMBDA x : x # args'[1])
          /\ \A other \in Range(watchlist') : items'[other] = items[other]
          /\ ~Contains(watchlist, args'[1]) => getAll' = getAll]_vars

\* The middle one of three items has just been removed, and the two that
\* are left carry recorded keys.
MiddleRemovedSeen ==
    /\ op = "remove"
    /\ args = <<1>>
    /\ watchlist = <<0, 2>>
    /\ items[0].triggered # <<>>
    /\ items[2].triggered # <<>>

\* C17: getAll() lists the items that are in the store in the order in
\* which they were added.
InsertionOrder ==
    \A j, k \in 1..Len(getAll) :
        j < k => getAll[j].created_at < getAll[k].created_at

\* The two items added in this session are left after the removal of the
\* loaded one, one edited and one with a recorded key, after a poll.
SurvivorsInOrderSeen ==
    /\ op = "fetch-array"
    /\ watchlist = <<1, 2>>
    /\ ~items[1].alerts[1].enabled
    /\ items[2].triggered # <<>>

\* C18: resetTriggered() leaves every item of the store with an empty
\* ledger and with the rules, id and place it had, and a second call right
\* after the first changes nothing.
ResetClearsLedgersOnly ==
    [][op' = "reset" =>
          /\ watchlist' = watchlist
          /\ \A id \in Range(watchlist) :
                 items'[id] = [items[id] EXCEPT !.triggered = <<>>]
          /\ op = "reset" => UNCHANGED << watchlist, items, stored >>]_vars

\* resetTriggered() has just run on two items with enabled rules after a
\* poll had succeeded, while another poll is outstanding.
ResetSeen ==
    /\ op = "reset"
    /\ Len(watchlist) = 2
    /\ \A k \in 1..2 : /\ getAll[k].triggered = <<>>
                        /\ getAll[k].alerts # <<>>
                        /\ getAll[k].alerts[1].enabled
    /\ status.text = StatusRunning
    /\ inflight # <<>>

\* s is t, or t with more elements after it.
IsPrefix(t, s) == Len(t) <= Len(s) /\ SubSeq(s, 1, Len(t)) = t

\* C19: however the daily reset interleaves with polls, outstanding ones
\* included, every item of the store has an empty ledger in the state in
\* which resetTriggered() returns, and a poll that completes only appends
\* keys to the ledgers as the last reset or poll left them.
ResetIsAtomic ==
    /\ [](op = "reset" => \A k \in 1..Len(getAll) : getAll[k].triggered = <<>>)
    /\ [][op' = "fetch-array" =>
              /\ watchlist' = watchlist
              /\ \A k \in 1..Len(getAll) :
                     IsPrefix(getAll[k].triggered, getAll'[k].triggered)]_vars

\* resetTriggered() has just returned while the scheduler runs and two
\* polls are outstanding, after an earlier poll had succeeded.
ResetDuringPollsSeen ==
    /\ op = "reset"
    /\ isRunning
    /\ Len(watchlist) = 2
    /\ Len(inflight) = 2
    /\ notifCap = "granted"
    /\ status.text = StatusRunning

\* The steps of the calls that end in save().
Mutating == {"add", "update", "remove", "reset", "fetch-array"}

\* C20: when localStorage refuses the write of a mutating call, the
\* collection in memory after the call is the one that was last written.
FailedCommitKeepsMemory ==
    [][(storageFull /\ getAll = stored /\ op' \in Mutating) =>
          (getAll' = stored /\ stored' = stored)]_vars

\* C21: while localStorage accepts writes, the collection it holds is the
\* collection in memory after every call of the manager and every ledger
\* write of a poll: the same items, rules and triggered keys, in order.
PersistedEqualsMemory == stored = getAll

\* A poll has just recorded a key on one of two items, the other having
\* been edited, and localStorage holds both as they are in memory.
PersistedLedgerSeen ==
    /\ op = "fetch-array"
    /\ Len(watchlist) = 2
    /\ items[watchlist[1]].triggered # <<>>
    /\ items[watchlist[2]].triggered = <<>>
    /\ items[watchlist[2]].alerts = <<Rule("price_above", 10000, FALSE)>>
    /\ stored = getAll

\* C22: when loading the persisted collection fails as the page loads (the
\* store throws, or what it holds is not a saved watchlist), the manager
\* holds the empty array afterwards.
LoadFailureStartsEmpty ==
    [][(op' = "init" /\ content \in LoadFailures)
          => (shape' = "array" /\ watchlist' = <<>>)]_vars

\* 14:30:00 of some day.
AtResetTime(t) == t.hour = 14 /\ t.minute = 30 /\ t.second = 0

\* C23: once the page has loaded, the daily timer calls resetTriggered() at
\* 14:30:00 only, and the clock does not pass 14:30:00 of any day before the
\* timer has run that day and is due at 14:30:00 of the day after.
DailyResetEveryDay ==
    [][/\ op' = "daily-reset" => AtResetTime(now)
       /\ (op' = "elapse" /\ AtResetTime(now))
             => (daily.kind = "interval" /\ daily.due = DayLater(now))]_vars

\* C24: for an item that stays in the store, no step other than
\* resetTriggered() adds a notify call for a rule key that notify has been
\* called for since the last reset.
NotifiedStaysSilent ==
    [][op' # "reset" =>
          \A x \in DOMAIN calls :
              Contains(watchlist', x[1]) => Count(calls', x) <= calls[x]]_vars

\* The rule lists have the same kinds at the same positions.
SameKinds(old, new) ==
    /\ Len(old) = Len(new)
    /\ \A k \in 1..Len(old) : old[k].type = new[k].type

\* C25: an update that keeps the kind at every position leaves every rule
\* that notify has been called for since the last reset recorded as
\* triggered, and a poll never calls notify for a key recorded as triggered.
ThresholdEditKeepsFired ==
    [][/\ (/\ op' = "update"
           /\ Contains(watchlist, args'[1])
           /\ SameKinds(items[args'[1]].alerts, args'[2]))
          => \A k \in 1..Len(args'[2]) :
                 LET key == alertKey(args'[2][k], k - 1)
                 IN  Count(calls, <<args'[1], key>>) >= 1
                        => Contains(items'[args'[1]].triggered, key)
       /\ op' = "fetch-array"
          => \A id \in Range(watchlist) :
                 \A key \in Range(items[id].triggered) :
                     Count(calls', <<id, key>>) =
                         Count(calls, <<id, key>>)]_vars

\* C26: a poll that received its list of quotes ends in the try block with
\* the running status, whatever the notification capability of the host,
\* and records the key of every rule it called notify for.
DispatchFailureContained ==
    [][op' = "fetch-array" =>
          /\ status' = RunningStatus(now)
          /\ \A x \in DOMAIN calls' :
                 (Count(calls', x) > Count(calls, x) /\ x[1] \in DOMAIN items')
                    => Contains(items'[x[1]].triggered, x[2])]_vars

\* C27: a poll that ends in the catch block leaves isRunning, the interval
\* handle and the armed timers as they were, and a timer tick inside
\* market hours that follows a failed poll begins a new fetch.
FetchFailureKeepsScheduler ==
    [][/\ op' = "fetch-fail"
          => UNCHANGED << isRunning, interval, timers >>
       /\ (/\ op' = "tick"
           /\ status.text = StatusFailed
           /\ isMarketHours(now)
           /\ watchlist # <<>>)
          => /\ Len(inflight') = Len(inflight) + 1
             /\ inflight'[Len(inflight')].snap = watchlist]_vars

TickAfterFailureSeen ==
    /\ op = "tick"
    /\ status.text = StatusFailed
    /\ isRunning
    /\ interval \in timers
    /\ isMarketHours(now)
    /\ Len(inflight) = 1

\* C28: the quote request of a poll names each instrument code at most
\* once, also when several items of the watchlist have the same code.
RequestCodesDistinct ==
    \A i \in 1..Len(inflight) :
        \A j, k \in 1..Len(inflight[i].codes) :
            j # k => inflight[i].codes[j] # inflight[i].codes[k]

\* The notify calls the step made for rule number k of item id.
NotifiedBy(id, k) ==
    LET x == <<id, alertKey(items[id].alerts[k], k - 1)>>
    IN  Count(calls', x) - Count(calls, x)

\* C29: two items of the watchlist with the same code, the same rules and
\* the same triggered keys come out of a poll's evaluation alike: the same
\* keys recorded for both and the same notify calls made for both.
SharedCodeEvaluatedAlike ==
    [][op' = "fetch-array" =>
          \A a, b \in Range(watchlist) :
              (/\ items[a].stock_code = items[b].stock_code
               /\ items[a].alerts = items[b].alerts
               /\ items[a].triggered = items[b].triggered)
                 => /\ items'[a].triggered = items'[b].triggered
                    /\ \A k \in 1..Len(items[a].alerts) :
                           NotifiedBy(a, k) = NotifiedBy(b, k)]_vars

\* C30: a poll on an empty watchlist, begun by check(), by a timer tick
\* inside market hours or by start(), puts no request in flight, publishes
\* the idle status and leaves the store alone, and the scheduler too apart
\* from what start() itself sets.
EmptyPollIsIdle ==
    [][(/\ watchlist = <<>>
        /\ \/ op' = "check"
           \/ op' = "tick" /\ isMarketHours(now)
           \/ op' = "start" /\ ~isRunning)
          => /\ inflight' = inflight
             /\ status' = Status(StatusIdle)
             /\ UNCHANGED << watchlist, items, nextId, stored, calls >>
             /\ op' # "start"
                => UNCHANGED << isRunning, interval, timers >>]_vars

EmptyPollSeen ==
    /\ op = "tick"
    /\ watchlist = <<>>
    /\ isMarketHours(now)
    /\ status = Status(StatusIdle)
    /\ inflight = <<>>
    /\ isRunning
    /\ interval \in timers

\* The codes of the quotes of a response.
Quoted(stocks) == {stocks[n].code : n \in 1..Len(stocks)}

\* The quote of code c in a response that has one.
QuoteOf(stocks, c) ==
    stocks[CHOOSE n \in 1..Len(stocks) : stocks[n].code = c]

\* C31: a poll whose list of quotes omits a requested code ends with the
\* running status; the items of an omitted code keep their triggered keys
\* and get no notify call, and every eligible rule of an item whose code
\* has a quote has its key recorded.
OmittedQuoteTolerated ==
    [][(/\ op' = "fetch-array"
        /\ CodeSet(inflight[args'[1]].codes) \ Quoted(args'[2]) # {})
          => /\ status' = RunningStatus(now)
             /\ \A id \in Range(watchlist) :
                    IF items[id].stock_code \in Quoted(args'[2])
                    THEN \A k \in 1..Len(items[id].alerts) :
                             Eligible(items[id],
                                      QuoteOf(args'[2], items[id].stock_code), k)
                                => Contains(items'[id].triggered,
                                            alertKey(items[id].alerts[k], k - 1))
                    ELSE /\ items'[id].triggered = items[id].triggered
                         /\ \A k \in 1..Len(items[id].alerts) :
                                NotifiedBy(id, k) = 0]_vars

\* C32: resetTriggered() leaves every rule of the watchlist armed, and a
\* successful poll calls notify once for every armed, enabled rule whose
\* condition holds against the quote of its item and records its key, so
\* that the rule is silent in the polls that follow until the next reset.
RearmedRuleFiresOnce ==
    [][/\ op' = "reset"
          => \A id \in Range(watchlist) : items'[id].triggered = <<>>
       /\ op' = "fetch-array"
          => \A id \in Range(watchlist) :
                 items[id].stock_code \in Quoted(args'[2])
                    => \A k \in 1..Len(items[id].alerts) :
                           IF Eligible(items[id],
                                       QuoteOf(args'[2], items[id].stock_code),
                                       k)
                           THEN /\ NotifiedBy(id, k) = 1
                                /\ Contains(items'[id].triggered,
                                            alertKey(items[id].alerts[k], k - 1))
                           ELSE NotifiedBy(id, k) = 0]_vars

\* C33: when the response of a poll is handled while another poll is
\* outstanding, every rule key of every item still has at most one notify
\* call since the last reset.
OverlappingPollsNotifyOnce ==
    [][(op' = "fetch-array" /\ Len(inflight) >= 2)
          => \A x \in DOMAIN calls' : calls'[x] <= 1]_vars

\* C34: a poll makes no notify call for an item that remove() has taken out
\* of the watchlist and does not write to its triggered keys, also when its
\* fetch was outstanding at the time of the remove.
RemovedItemSilent ==
    [][op' = "fetch-array" =>
          /\ \A x \in DOMAIN calls' :
                 ~Contains(watchlist, x[1]) => Count(calls', x) = Count(calls, x)
          /\ \A id \in (DOMAIN items) \cap (DOMAIN items') :
                 ~Contains(watchlist, id)
                    => items'[id].triggered = items[id].triggered]_vars

\* C35: every key in the triggered list of an item of the watchlist names a
\* rule the item has: a rule of the key's kind at the key's position.
KeysNameRules ==
    \A id \in Range(watchlist) :
        \A key \in Range(items[id].triggered) :
            /\ key[2] + 1 \in 1..Len(items[id].alerts)
            /\ items[id].alerts[key[2] + 1].type = key[1]

\* C36: the poll timer is armed exactly while isRunning is true: a Running
\* scheduler has the one timer its interval handle names, a Stopped one has
\* no timer and no handle.
TimerArmedIffRunning ==
    /\ isRunning <=> timers # {}
    /\ isRunning => timers = {interval}
    /\ ~isRunning => interval = 0

RestartedTimerSeen ==
    /\ op = "start"
    /\ isRunning
    /\ timers = {interval}
    /\ status = Status(StatusStopped)
    /\ watchlist # <<>>

\* C37: a poll that was outstanding when stop() was called and completes
\* or fails right after it leaves the stopped status published.
StoppedStatusStays ==
    [][(op = "stop" /\ op' \in {"fetch-array", "fetch-fail"})
          => status' = Status(StatusStopped)]_vars

\* C38: initWatchlist leaves the scheduler Running exactly when the clock
\* is inside market hours and the array it loaded has an item, and
\* afterwards only start() moves a Stopped scheduler to Running: the clock
\* entering market hours, an item being added and the daily reset do not.
AutoStartOnlyAtInit ==
    [][/\ op' = "init"
          => (isRunning' <=> (/\ isMarketHours(now)
                               /\ Len(load(content, stored)) > 0))
       /\ (~isRunning /\ isRunning') => op' \in {"init", "start"}]_vars

\* C39: a click on the button, or the answer to the prompt it opened, moves
\* a Stopped scheduler to Running only with a non-empty watchlist and
\* permission granted; a click with an empty watchlist or with permission
\* denied leaves it Stopped, and a click on a Running scheduler stops it.
ToggleStartsWhenAllowed ==
    [][/\ (op' \in {"toggle", "answer"} /\ ~isRunning /\ isRunning')
          => (watchlist # <<>> /\ notifCap' = "granted")
       /\ (op' = "toggle" /\ isRunning) => ~isRunning'
       /\ (op' = "toggle" /\ ~isRunning
             /\ (watchlist = <<>> \/ notifCap = "denied"))
          => ~isRunning']_vars

\* C39, amended: a click starts a Stopped scheduler only with a non-empty
\* watchlist and permission granted, and opens the prompt only with a
\* non-empty watchlist and permission undecided; the answer to the prompt
\* starts the scheduler only when it is 'granted', whatever the watchlist
\* holds by then; a click with an empty watchlist or with permission denied
\* leaves it Stopped, and a click on a Running scheduler stops it.
ToggleStartsWhenAllowedAtClick ==
    [][/\ (op' = "toggle" /\ ~isRunning /\ isRunning')
          => (watchlist # <<>> /\ notifCap = "granted")
       /\ (op' = "toggle" /\ notifCap # "prompt" /\ notifCap' = "prompt")
          => (watchlist # <<>> /\ notifCap = "default" /\ ~isRunning)
       /\ (op' = "answer" /\ ~isRunning /\ isRunning')
          => (notifCap = "prompt" /\ notifCap' = "granted")
       /\ (op' = "toggle" /\ isRunning) => ~isRunning'
       /\ (op' = "toggle" /\ ~isRunning
             /\ (watchlist = <<>> \/ notifCap = "denied"))
          => ~isRunning']_vars

PromptedStartOnEmptySeen ==
    /\ op = "answer"
    /\ isRunning
    /\ notifCap = "granted"
    /\ watchlist = <<>>
    /\ status = Status(StatusIdle)

\* C40: the triggered list of an item holds no key twice.
NoDuplicateKeys ==
    \A id \in DOMAIN items :
        \A j, k \in 1..Len(items[id].triggered) :
            j # k => items[id].triggered[j] # items[id].triggered[k]

\* An evaluation whose quote meets an enabled rule that had its key in the
\* ledger: notify was not called for it and the key is there once.
RecordedKeySkippedSeen ==
    /\ op = "check-alerts"
    /\ notifCap = "granted"
    /\ LET item == items[args[1]]
           key == alertKey(item.alerts[1], 0)
       IN  /\ item.alerts[1].enabled
           /\ Holds(item.alerts[1], args[2])
           /\ Count(calls, <<args[1], key>>) = 0
           /\ Contains(item.triggered, key)
           /\ Len(item.triggered) = 2

============================================================================
